---- MODULE Spec2Model ----
(***************************************************************************)
(* Model of the creator-application portal (src/App.tsx, src/services.ts,  *)
(* src/components/*.tsx): the remote document store, the cached copies     *)
(* each browser session holds of it, and the workflow handlers of App.tsx  *)
(* that write to the store.                                                *)
(*                                                                         *)
(* A "client" is one browser session running App.  The store is shared;   *)
(* every client holds React state (projects, applications, invoices,       *)
(* users) that is replaced by a full snapshot of the matching collection   *)
(* whenever the subscription callback runs.  Only the cached collections   *)
(* that the handlers of a session read are kept.                           *)
(***************************************************************************)
EXTENDS Integers, FiniteSets, Sequences, TLC

\* ---------------------------------------------------------------- bounds
\* Date.now() values a client can read; record ids are a prefix + Date.now()
MaxProjectId == 1
MaxApplicationId == 2
MaxInvoiceId == 2
MaxNotificationId == 1
\* handler invocations explored in one behaviour
MaxCalls == 5
\* auth state changes waiting for the listener; entries of the navigation history
MaxEvents == 2
MaxHistory == 1
ProjectIds == 1..MaxProjectId
ApplicationIds == 1..MaxApplicationId
InvoiceIds == 1..MaxInvoiceId
NotificationIds == 1..MaxNotificationId

\* ------------------------------------------------------- program constants
AdminId == "WRIu0Aenv3H9FE092W53"
PartnerIds == {"u1"}
UserIds == {AdminId} \cup PartnerIds
\* for (let i = 0; i < 8; i++): rounds of the listener's retry loop
MaxRetries == 8
NoUser == "undefined"

\* browser sessions: one of the shared operator account, one of partner u1.
\* A session may invoke a handler while an earlier one of its own is suspended
\* at an await, which also covers a second session of the same account.
AdminClients == {"A"}
PartnerClients == {"P"}
Clients == AdminClients \cup PartnerClients

\* inputs of the forms
Budgets == {1}
Quotes == {0, 2}
Amounts == {3}
Scores == {5}
InvoiceStatuses == {"UNBILLED", "BILLED", "PAID"}

\* ------------------------------------------------------------- documents
NoProject == [exists |-> FALSE, status |-> "-", assignedToUserId |-> NoUser,
              budget |-> 0, review |-> 0]
NoApplication == [exists |-> FALSE, projectId |-> 0, userId |-> NoUser,
                  status |-> "-", quoteAmount |-> 0, isRead |-> FALSE]
NoInvoice == [exists |-> FALSE, projectId |-> 0, userId |-> NoUser, amount |-> 0,
              issueDate |-> "", status |-> "-", pdfUrl |-> "undefined"]
NoNotification == [exists |-> FALSE, userId |-> NoUser, title |-> "-",
                   link |-> "undefined", ref |-> 0, isRead |-> FALSE]
NoUserDoc == [exists |-> FALSE, role |-> "-", status |-> "-", jobPortalEnabled |-> FALSE]

VARIABLES
    dbProjects,       \* store collection 'projects':      id -> document
    dbApplications,   \* store collection 'applications'
    dbInvoices,       \* store collection 'invoices'
    dbNotifications,  \* store collection 'notifications'
    dbUsers,          \* store collection 'users'
    projects,         \* per client: React state projects
    applications,     \* per operator client: React state applications
    invoices,         \* per operator client: React state invoices
    users,            \* per partner client: React state users
    currentUser,      \* per client: React state currentUser (a user document + id)
    view,             \* per client: React state view
    selectedUserProfileId, \* per client: React state selectedUserProfileId
    viewParams,       \* per client: React state viewParams (its tab)
    history,          \* per client: React state history (navigation stack)
    hasInitialAuthCheck,   \* per client: ref hasInitialAuthCheck
    isIntentionalLogout,   \* per client: ref isIntentionalLogout
    session,          \* per client: the identity provider's signed-in user
    authEvents,       \* per client: auth state changes not yet given to the listener
    listener,         \* per client: the auth listener suspended at its profile lookup
    task,             \* per client: the async handler suspended at an await
    calls,            \* handler invocations so far
    payloadAmount,    \* the amount handleCreateInvoice is called with (a Number)
    payload,          \* the payload handleCreateInvoice built for the webhook
    notifications,    \* per client: React state notifications (those of its user)
    bankAccountInfo,  \* per partner: the field bankAccountInfo of the stored user
    formData,         \* the bank fields of the state formData of Profile
    activeToasts,     \* per client: React state activeToasts (the toast types)
    thrown            \* per client: the promise of its last async handler was rejected

dbVars == <<dbProjects, dbApplications, dbInvoices, dbNotifications, dbUsers>>
cacheVars == <<projects, applications, invoices, users>>
authVars == <<currentUser, view, selectedUserProfileId, viewParams, history, hasInitialAuthCheck,
              isIntentionalLogout, session, authEvents, listener>>
\* state of the handlers modelled further down, which the workflow and the
\* session handlers neither read nor write
formVars == <<payloadAmount, payload, notifications, bankAccountInfo, formData>>
uiVars == <<activeToasts, thrown>>
vars == <<dbVars, cacheVars, authVars, task, calls, formVars, uiVars>>

\* ------------------------------------------------------------- services.ts
\* setDoc(doc(db, collection, id), data): create or replace the document
setDoc(coll, id, data) == [coll EXCEPT ![id] = data]

\* updateDoc: partial merge into an existing document (fails when it is absent)
CanUpdate(coll, id) == id \in DOMAIN coll /\ coll[id].exists

\* ------------------------------------------------------------------ users
AdminUser == [exists |-> TRUE, role |-> "admin", status |-> "ACTIVE",
              jobPortalEnabled |-> TRUE]
PartnerUser(st, enabled) ==
    [exists |-> TRUE, role |-> "PARTNER", status |-> st, jobPortalEnabled |-> enabled]

NoCurrentUser == [id |-> NoUser, role |-> "-", status |-> "-"]
LoggedIn(id, doc) == [id |-> id, role |-> doc.role, status |-> doc.status]

ClientUser(c) == IF c \in AdminClients THEN AdminId ELSE "u1"

\* the auth listener is not running
NoLookup == [pc |-> "idle", user |-> NoUser, tries |-> 0]

\* navigation parameters, by their tab: null, undefined or an object without
\* tab all read as no tab
NoParams == "undefined"
Params == {NoParams, "MESSAGES"}

\* { ...viewParams, ...context }
MergeParams(params, context) == IF context # NoParams THEN context ELSE params

\* --------------------------------------------------------------------- JSON
\* A string is a sequence of characters.  JSON.stringify and JSON.parse for
\* the objects the profile form saves: string members, with the escapes of
\* the quote and the backslash.
BankFields == <<"bankName", "branchName", "accountType", "accountNumber", "accountHolder">>
BankKeys == {BankFields[i] : i \in 1..Len(BankFields)}
KeyChars ==
    [bankName |-> <<"b", "a", "n", "k", "N", "a", "m", "e">>,
     branchName |-> <<"b", "r", "a", "n", "c", "h", "N", "a", "m", "e">>,
     accountType |-> <<"a", "c", "c", "o", "u", "n", "t", "T", "y", "p", "e">>,
     accountNumber |-> <<"a", "c", "c", "o", "u", "n", "t", "N", "u", "m", "b", "e", "r">>,
     accountHolder |-> <<"a", "c", "c", "o", "u", "n", "t", "H", "o", "l", "d", "e", "r">>]

RECURSIVE Escape(_)
Escape(str) ==
    IF str = <<>> THEN <<>>
    ELSE (IF Head(str) \in {"\"", "\\"} THEN <<"\\", Head(str)>> ELSE <<Head(str)>>)
            \o Escape(Tail(str))

Quote(str) == <<"\"">> \o Escape(str) \o <<"\"">>

RECURSIVE Members(_, _)
Members(obj, i) ==
    Quote(KeyChars[BankFields[i]]) \o <<":">> \o Quote(obj[BankFields[i]])
        \o (IF i = Len(BankFields) THEN <<>> ELSE <<",">> \o Members(obj, i + 1))

\* JSON.stringify({bankName: ..., branchName: ..., accountType: ..., ...})
JSONStringify(obj) == <<"{">> \o Members(obj, 1) \o <<"}">>

SyntaxError == [ok |-> FALSE, value |-> <<>>, next |-> 0]

\* the string literal whose opening quote precedes position i
RECURSIVE ReadString(_, _, _)
ReadString(str, i, acc) ==
    IF i > Len(str) THEN SyntaxError
    ELSE IF str[i] = "\"" THEN [ok |-> TRUE, value |-> acc, next |-> i + 1]
    ELSE IF str[i] = "\\"
    THEN IF i + 1 > Len(str) \/ str[i + 1] \notin {"\"", "\\"} THEN SyntaxError
         ELSE ReadString(str, i + 2, Append(acc, str[i + 1]))
    ELSE ReadString(str, i + 1, Append(acc, str[i]))

StringAt(str, i) ==
    IF i <= Len(str) /\ str[i] = "\"" THEN ReadString(str, i + 1, <<>>) ELSE SyntaxError

\* the object after the member key: value is added (members the form does
\* not have are left out)
Put(obj, key, value) ==
    [f \in BankKeys |-> IF KeyChars[f] = key THEN value ELSE obj[f]]

\* the members from position i up to the closing brace that ends the text
RECURSIVE ReadMembers(_, _, _)
ReadMembers(str, i, obj) ==
    LET key == StringAt(str, i)
    IN  IF ~key.ok \/ key.next > Len(str) \/ str[key.next] # ":" THEN SyntaxError
        ELSE LET val == StringAt(str, key.next + 1)
             IN  IF ~val.ok \/ val.next > Len(str) THEN SyntaxError
                 ELSE IF str[val.next] = "}"
                 THEN IF val.next = Len(str)
                      THEN [ok |-> TRUE, value |-> Put(obj, key.value, val.value),
                            next |-> val.next + 1]
                      ELSE SyntaxError
                 ELSE IF str[val.next] = ","
                 THEN ReadMembers(str, val.next + 1, Put(obj, key.value, val.value))
                 ELSE SyntaxError

\* JSON.parse(text) merged over the members of base: {...base, ...parsed}
JSONParse(str, base) ==
    IF Len(str) < 2 \/ str[1] # "{" THEN SyntaxError
    ELSE IF str = <<"{", "}">> THEN [ok |-> TRUE, value |-> base, next |-> 3]
    ELSE ReadMembers(str, 2, base)

\* useState of Profile: the bank fields of formData
InitialFormData ==
    [bankName |-> <<>>, branchName |-> <<>>, accountType |-> <<"u666E", "u901A">>,
     accountNumber |-> <<>>, accountHolder |-> <<>>]

\* ------------------------------------------------------ JavaScript Numbers
\* A non-negative integer is held as Limbs digits of LimbBits bits each, the
\* least significant first, so that the 53-bit significands of the Numbers of
\* handleCreateInvoice and their products can be written down exactly.
LimbBits == 14
LimbBase == 2^LimbBits
Limbs == 8
LimbIx == 0..(Limbs - 1)

\* the digits listed in a sequence; a small integer
NumOf(digits) == [k \in LimbIx |-> IF k < Len(digits) THEN digits[k + 1] ELSE 0]
Num(n) == NumOf(<<n % LimbBase, (n \div LimbBase) % LimbBase,
                  n \div (LimbBase * LimbBase)>>)
Zero == Num(0)

\* carry propagation over columns that may exceed one digit
Normalize(col) ==
    LET carry[k \in 0..Limbs] ==
            IF k = 0 THEN 0 ELSE (col[k - 1] + carry[k - 1]) \div LimbBase
    IN  [k \in LimbIx |-> (col[k] + carry[k]) % LimbBase]

Plus(x, y) == Normalize([k \in LimbIx |-> x[k] + y[k]])

RECURSIVE Column(_, _, _, _)
Column(x, y, k, i) ==
    IF i > k THEN 0 ELSE (x[i] * y[k - i]) + Column(x, y, k, i + 1)

\* the exact product of two integers of at most four digits each
Times(x, y) == Normalize([k \in LimbIx |-> Column(x, y, k, 0)])

\* floor(x / d) for a small divisor d, by long division
DivSmall(x, d) ==
    LET rem[k \in 0..Limbs] ==
            IF k = Limbs THEN 0 ELSE ((rem[k + 1] * LimbBase) + x[k]) % d
    IN  [k \in LimbIx |-> ((rem[k + 1] * LimbBase) + x[k]) \div d]

Bit(x, i) == (x[i \div LimbBits] \div (2^(i % LimbBits))) % 2

BitLength(x) ==
    IF x = Zero THEN 0
    ELSE 1 + CHOOSE i \in 0..(Limbs * LimbBits - 1) :
                 /\ Bit(x, i) = 1
                 /\ \A j \in (i + 1)..(Limbs * LimbBits - 1) : Bit(x, j) = 0

\* 2^s; x with its s lowest bits cleared; floor(x / 2^s)
Pow2(s) == [k \in LimbIx |-> IF k = s \div LimbBits THEN 2^(s % LimbBits) ELSE 0]

ClearLow(x, s) ==
    [k \in LimbIx |-> IF LimbBits * (k + 1) <= s THEN 0
                      ELSE IF LimbBits * k >= s THEN x[k]
                      ELSE x[k] - (x[k] % 2^(s - LimbBits * k))]

ShiftRight(x, s) ==
    LET q == s \div LimbBits
        r == s % LimbBits
        limb(k) == IF k < Limbs THEN x[k] ELSE 0
    IN  [k \in LimbIx |->
            (limb(k + q) \div 2^r) + ((limb(k + q + 1) % 2^r) * 2^(LimbBits - r))]

\* a Number is significand * 2^-exponent with a significand of 53 bits
Significand == 53

\* the Number nearest to the integer x (ties to the even significand)
RoundToNumber(x) ==
    LET s == BitLength(x) - Significand
    IN  IF s <= 0 THEN x
        ELSE LET half == Bit(x, s - 1) = 1
                 sticky == \E j \in 0..(s - 2) : Bit(x, j) = 1
                 odd == Bit(x, s) = 1
             IN  IF half /\ (sticky \/ odd) THEN Plus(ClearLow(x, s), Pow2(s))
                 ELSE ClearLow(x, s)

\* the literals 1.1 = 4953959590107546 * 2^-52 and 0.1 = 7205759403792794 * 2^-56
OnePointOne == [significand |-> NumOf(<<6554, 9830, 6553, 1126>>), exponent |-> 52]
ZeroPointOne == [significand |-> NumOf(<<6554, 9830, 6553, 1638>>), exponent |-> 56]

\* Math.floor(amount * factor) for an integer amount below 2^53
MathFloorTimes(amount, factor) ==
    ShiftRight(RoundToNumber(Times(amount, factor.significand)), factor.exponent)

\* totalAmount, taxAmount and subTotal of the payload of handleCreateInvoice
Payload(amount) ==
    [totalAmount |-> MathFloorTimes(amount, OnePointOne),
     taxAmount |-> MathFloorTimes(amount, ZeroPointOne),
     subTotal |-> amount, sent |-> TRUE]

NoPayload == [totalAmount |-> Zero, taxAmount |-> Zero, subTotal |-> Zero, sent |-> FALSE]

\* the amounts tried: small ones, the amounts of the scenarios, and a run of
\* amounts from 511772684928460 on
MaxSmallAmount == 60
MaxLargeOffset == 40
LargeAmount == NumOf(<<1484, 13405, 5957, 116>>)
PayloadAmounts ==
    {Num(n) : n \in (0..MaxSmallAmount) \cup {100000, 150000}}
        \cup {Plus(LargeAmount, Num(k)) : k \in 0..MaxLargeOffset}

\* no payload has been built and no notification snapshot has been delivered
InitForms ==
    /\ payloadAmount = Zero
    /\ payload = NoPayload
    /\ notifications = [c \in Clients |-> [i \in NotificationIds |-> NoNotification]]
    /\ bankAccountInfo = [u \in PartnerIds |-> <<>>]
    /\ formData = InitialFormData

\* ----------------------------------------------------------------- toasts
\* toasts kept in activeToasts: a toast is dismissed by its timer, so only
\* the newest ones are still listed when the next one is shown
MaxToasts == 1

\* showToast(type, title, message) on the list of one client
showToast(toasts, type) ==
    LET all == Append(toasts, type)
    IN  IF Len(all) > MaxToasts THEN SubSeq(all, Len(all) - MaxToasts + 1, Len(all))
        ELSE all

\* the toast of addNotification without the test of the local user
notifyToastAlways(toasts, c, userId, type) == showToast(toasts, type)

\* the toast of addNotification: only when the notification is for the local user
notifyToast(toasts, c, userId, type) ==
    IF currentUser[c].id = userId THEN showToast(toasts, type) ELSE toasts

InitToasts ==
    /\ activeToasts = [c \in Clients |-> <<>>]
    /\ thrown = [c \in Clients |-> FALSE]

\* ------------------------------------------------------------------- Init
Idle == [pc |-> "idle", projectId |-> 0, applicationId |-> 0, invoiceId |-> 0,
         userId |-> NoUser, amount |-> 0, existing |-> FALSE, admin |-> NoUser]

\* every session is logged in and no snapshot has been delivered yet
Init ==
    /\ dbProjects = [i \in ProjectIds |-> NoProject]
    /\ dbApplications = [i \in ApplicationIds |-> NoApplication]
    /\ dbInvoices = [i \in InvoiceIds |-> NoInvoice]
    /\ dbNotifications = [i \in NotificationIds |-> NoNotification]
    /\ dbUsers = [u \in UserIds |-> IF u = AdminId THEN AdminUser
                                 ELSE PartnerUser("ACTIVE", TRUE)]
    /\ projects = [c \in Clients |-> [i \in ProjectIds |-> NoProject]]
    /\ applications = [c \in AdminClients |-> [i \in ApplicationIds |-> NoApplication]]
    /\ invoices = [c \in AdminClients |-> [i \in InvoiceIds |-> NoInvoice]]
    /\ users = [c \in PartnerClients |-> [u \in UserIds |-> NoUserDoc]]
    /\ currentUser = [c \in Clients |->
                        LoggedIn(ClientUser(c), IF c \in AdminClients THEN AdminUser
                                                ELSE PartnerUser("ACTIVE", TRUE))]
    /\ view = [c \in Clients |-> "DASHBOARD"]
    /\ selectedUserProfileId = [c \in Clients |-> NoUser]
    /\ viewParams = [c \in Clients |-> NoParams]
    /\ history = [c \in Clients |-> <<>>]
    /\ hasInitialAuthCheck = [c \in Clients |-> c \in PartnerClients]
    /\ isIntentionalLogout = [c \in Clients |-> FALSE]
    /\ session = [c \in Clients |-> IF c \in PartnerClients THEN "u1" ELSE NoUser]
    /\ authEvents = [c \in Clients |-> <<>>]
    /\ listener = [c \in Clients |-> NoLookup]
    /\ task = [c \in Clients |-> Idle]
    /\ calls = 0
    /\ InitForms
    /\ InitToasts

\* one more handler is invoked
Call == calls < MaxCalls /\ calls' = calls + 1

\* ------------------------------------------------- subscription callbacks
\* subscribeToCollection(name, data => setX(data)): the whole collection
SnapshotProjects(c) ==
    /\ projects[c] # dbProjects
    /\ projects' = [projects EXCEPT ![c] = dbProjects]
    /\ UNCHANGED <<dbVars, applications, invoices, users, authVars, task, calls>>
    /\ UNCHANGED formVars
    /\ UNCHANGED uiVars

SnapshotApplications(c) ==
    /\ applications[c] # dbApplications
    /\ applications' = [applications EXCEPT ![c] = dbApplications]
    /\ UNCHANGED <<dbVars, projects, invoices, users, authVars, task, calls>>
    /\ UNCHANGED formVars
    /\ UNCHANGED uiVars

SnapshotInvoices(c) ==
    /\ invoices[c] # dbInvoices
    /\ invoices' = [invoices EXCEPT ![c] = dbInvoices]
    /\ UNCHANGED <<dbVars, projects, applications, users, authVars, task, calls>>
    /\ UNCHANGED formVars
    /\ UNCHANGED uiVars

SnapshotUsers(c) ==
    /\ users[c] # dbUsers
    /\ users' = [users EXCEPT ![c] = dbUsers]
    /\ UNCHANGED <<dbVars, projects, applications, invoices, authVars, task, calls>>
    /\ UNCHANGED formVars
    /\ UNCHANGED uiVars

\* ----------------------------------------------------------- addNotification
\* createDocument('notifications', {id: `n${Date.now()}`, userId, ..., isRead: false, link})
\* the title is kept for the two notifications a partner gets about a project
Notification(userId, link, ref) ==
    [exists |-> TRUE, userId |-> userId, title |-> "-", link |-> link, ref |-> ref,
     isRead |-> FALSE]

\* addNotification(userId, SUCCESS, '採用決定', ..., `PROJECT:${projectToHire.id}`)
HireNotification(userId, projectId) ==
    [Notification(userId, "PROJECT", projectId) EXCEPT !.title = "hired"]

\* addNotification(assignedUserId, SUCCESS, '案件完了', ..., `PROJECT:${projectId}`)
CompletedNotification(userId, projectId) ==
    [Notification(userId, "PROJECT", projectId) EXCEPT !.title = "completed"]

addNotification(notifs, now, userId, link, ref) ==
    setDoc(notifs, now, Notification(userId, link, ref))

\* users.find(u => u.role === UserRole.ADMIN) on the client's cached users
FindAdmin(c) ==
    IF \E u \in UserIds : users[c][u].exists /\ users[c][u].role = "admin"
    THEN CHOOSE u \in UserIds : users[c][u].exists /\ users[c][u].role = "admin"
    ELSE NoUser

\* --------------------------------------------------------- handleCreateProject
NewProject(budget) ==
    [exists |-> TRUE, status |-> "RECRUITING", assignedToUserId |-> NoUser,
     budget |-> budget, review |-> 0]

handleCreateProject(c, now, budget, ok) ==
    /\ Call
    /\ dbProjects' = IF ok THEN setDoc(dbProjects, now, NewProject(budget)) ELSE dbProjects
    /\ UNCHANGED <<dbApplications, dbInvoices, dbNotifications, dbUsers,
                   cacheVars, authVars, task>>
    /\ UNCHANGED formVars
    /\ activeToasts' = IF ok THEN [activeToasts EXCEPT ![c] = showToast(@, "SUCCESS")]
                       ELSE activeToasts
    /\ thrown' = [thrown EXCEPT ![c] = ~ok]

\* ----------------------------------------------------------------- handleApply
NewApplication(projectId, userId, quoteAmount) ==
    [exists |-> TRUE, projectId |-> projectId, userId |-> userId, status |-> "APPLIED",
     quoteAmount |-> quoteAmount, isRead |-> FALSE]

\* when the awaited write throws nothing follows it
handleApply(c, now, now2, projectId, quoteAmount, ok) ==
    /\ Call
    /\ currentUser[c].id # NoUser
    /\ dbApplications' =
          IF ok
          THEN setDoc(dbApplications, now,
                      NewApplication(projectId, currentUser[c].id, quoteAmount))
          ELSE dbApplications
    /\ dbNotifications' =
          IF ok /\ FindAdmin(c) # NoUser /\ projects[c][projectId].exists
          THEN addNotification(dbNotifications, now2, FindAdmin(c), "PROJECT", projectId)
          ELSE dbNotifications
    /\ UNCHANGED <<dbProjects, dbInvoices, dbUsers, cacheVars, authVars, task>>
    /\ UNCHANGED formVars
    /\ activeToasts' =
          IF ~ok THEN activeToasts
          ELSE IF FindAdmin(c) # NoUser /\ projects[c][projectId].exists
          THEN [activeToasts EXCEPT ![c] =
                   notifyToast(showToast(@, "SUCCESS"), c, FindAdmin(c), "INFO")]
          ELSE [activeToasts EXCEPT ![c] = showToast(@, "SUCCESS")]
    /\ thrown' = [thrown EXCEPT ![c] = ~ok]

\* --------------------------------------------------------- handleHireApplicant
\* the quote the invoice stub is created with
HireAmount(application, project) ==
    IF application.quoteAmount # 0 THEN application.quoteAmount ELSE project.budget

\* the catch block of handleHireApplicant with a "throw error" at its end
HireRethrown(c) ==
    /\ activeToasts' = [activeToasts EXCEPT ![c] = showToast(@, "ERROR")]
    /\ thrown' = [thrown EXCEPT ![c] = TRUE]

\* the catch block of handleHireApplicant: console.error and the toast
\* 'システムエラー'; the handler then returns normally
HireCaught(c) ==
    /\ activeToasts' = [activeToasts EXCEPT ![c] = showToast(@, "ERROR")]
    /\ thrown' = [thrown EXCEPT ![c] = FALSE]

\* the lookup guard testing the project only
HireFoundProject(c, projectId, applicationId) == projects[c][projectId].exists

\* projects.find(...) and applications.find(...) both found a record
HireFound(c, projectId, applicationId) ==
    projects[c][projectId].exists /\ applications[c][applicationId].exists

\* the hire with the project and the application written in one step
handleHireApplicantAtOnce(c, projectId, applicationId, userId, ok) ==
    /\ Call
    /\ task[c].pc = "idle"
    /\ IF ~HireFound(c, projectId, applicationId)
       THEN /\ activeToasts' = [activeToasts EXCEPT ![c] = showToast(@, "ERROR")]
            /\ thrown' = [thrown EXCEPT ![c] = FALSE]
            /\ UNCHANGED <<dbProjects, dbApplications, task>>
       ELSE IF ok /\ CanUpdate(dbProjects, projectId)
                  /\ CanUpdate(dbApplications, applicationId)
       THEN /\ dbProjects' = [dbProjects EXCEPT ![projectId].status = "IN_PROGRESS",
                                                ![projectId].assignedToUserId = userId]
            /\ dbApplications' = [dbApplications EXCEPT ![applicationId].status = "HIRED"]
            /\ task' = [task EXCEPT ![c] =
                  [Idle EXCEPT !.pc = "hire3", !.projectId = projectId,
                               !.applicationId = applicationId, !.userId = userId,
                               !.amount = HireAmount(applications[c][applicationId],
                                                     projects[c][projectId])]]
            /\ UNCHANGED uiVars
       ELSE /\ HireCaught(c)
            /\ UNCHANGED <<dbProjects, dbApplications, task>>
    /\ UNCHANGED <<dbInvoices, dbNotifications, dbUsers, cacheVars, authVars>>
    /\ UNCHANGED formVars

\* lookup in the cached collections, then write 1: the project
handleHireApplicant(c, projectId, applicationId, userId, ok) ==
    /\ Call
    /\ task[c].pc = "idle"
    /\ IF ~HireFound(c, projectId, applicationId)
       THEN /\ activeToasts' = [activeToasts EXCEPT ![c] = showToast(@, "ERROR")]
            /\ thrown' = [thrown EXCEPT ![c] = FALSE]
            /\ UNCHANGED <<dbProjects, task>>
       ELSE IF ok /\ CanUpdate(dbProjects, projectId)
       THEN /\ dbProjects' = [dbProjects EXCEPT ![projectId].status = "IN_PROGRESS",
                                                ![projectId].assignedToUserId = userId]
            /\ task' = [task EXCEPT ![c] =
                  [Idle EXCEPT !.pc = "hire2", !.projectId = projectId,
                               !.applicationId = applicationId, !.userId = userId,
                               !.amount = HireAmount(applications[c][applicationId],
                                                     projects[c][projectId])]]
            /\ UNCHANGED uiVars
       ELSE /\ HireCaught(c)
            /\ UNCHANGED <<dbProjects, task>>
    /\ UNCHANGED <<dbApplications, dbInvoices, dbNotifications, dbUsers,
                   cacheVars, authVars>>
    /\ UNCHANGED formVars

\* write 2: the application
HireApplication(c, ok) ==
    /\ task[c].pc = "hire2"
    /\ IF ok /\ CanUpdate(dbApplications, task[c].applicationId)
       THEN /\ dbApplications' = [dbApplications EXCEPT
                                    ![task[c].applicationId].status = "HIRED"]
            /\ task' = [task EXCEPT ![c].pc = "hire3"]
            /\ UNCHANGED uiVars
       ELSE /\ task' = [task EXCEPT ![c] = Idle]
            /\ HireCaught(c)
            /\ UNCHANGED dbApplications
    /\ UNCHANGED <<dbProjects, dbInvoices, dbNotifications, dbUsers,
                   cacheVars, authVars, calls>>
    /\ UNCHANGED formVars

\* an invoice stub that is born billed
InvoiceStubBilled(projectId, userId, amount) ==
    [exists |-> TRUE, projectId |-> projectId, userId |-> userId, amount |-> amount,
     issueDate |-> "-", status |-> "BILLED", pdfUrl |-> "undefined"]

\* write 3: the invoice stub, then the notification to the partner
InvoiceStub(projectId, userId, amount) ==
    [exists |-> TRUE, projectId |-> projectId, userId |-> userId, amount |-> amount,
     issueDate |-> "-", status |-> "UNBILLED", pdfUrl |-> "undefined"]

HireInvoice(c, now, now2, ok) ==
    /\ task[c].pc = "hire3"
    /\ IF ok
       THEN /\ dbInvoices' = setDoc(dbInvoices, now,
                   InvoiceStub(task[c].projectId, task[c].userId, task[c].amount))
            /\ dbNotifications' = setDoc(dbNotifications, now2,
                                         HireNotification(task[c].userId, task[c].projectId))
            /\ activeToasts' = [activeToasts EXCEPT ![c] =
                  showToast(notifyToast(@, c, task[c].userId, "SUCCESS"), "SUCCESS")]
            /\ thrown' = [thrown EXCEPT ![c] = FALSE]
       ELSE /\ HireCaught(c)
            /\ UNCHANGED <<dbInvoices, dbNotifications>>
    /\ task' = [task EXCEPT ![c] = Idle]
    /\ UNCHANGED <<dbProjects, dbApplications, dbUsers, cacheVars, authVars, calls>>
    /\ UNCHANGED formVars

\* ------------------------------------------------------- handleCompleteProject
handleCompleteProject(c, now, projectId, score, ok) ==
    /\ Call
    /\ dbProjects' =
          IF ok /\ CanUpdate(dbProjects, projectId)
          THEN [dbProjects EXCEPT ![projectId].status = "COMPLETED",
                                  ![projectId].review = score]
          ELSE dbProjects
    /\ dbNotifications' =
          IF ok /\ CanUpdate(dbProjects, projectId)
                /\ projects[c][projectId].assignedToUserId # NoUser
          THEN setDoc(dbNotifications, now,
                      CompletedNotification(projects[c][projectId].assignedToUserId,
                                            projectId))
          ELSE dbNotifications
    /\ UNCHANGED <<dbApplications, dbInvoices, dbUsers, cacheVars, authVars, task>>
    /\ UNCHANGED formVars
    /\ activeToasts' =
          IF ~(ok /\ CanUpdate(dbProjects, projectId)) THEN activeToasts
          ELSE IF projects[c][projectId].assignedToUserId # NoUser
          THEN [activeToasts EXCEPT ![c] =
                   notifyToast(showToast(@, "SUCCESS"), c,
                               projects[c][projectId].assignedToUserId, "SUCCESS")]
          ELSE [activeToasts EXCEPT ![c] = showToast(@, "SUCCESS")]
    /\ thrown' = [thrown EXCEPT ![c] = ~(ok /\ CanUpdate(dbProjects, projectId))]

\* --------------------------------------------------- handleUpdateInvoiceStatus
handleUpdateInvoiceStatus(c, now, invoiceId, status) ==
    /\ Call
    /\ dbInvoices' =
          IF CanUpdate(dbInvoices, invoiceId)
          THEN [dbInvoices EXCEPT ![invoiceId].status = status,
                                  ![invoiceId].issueDate =
                                      IF status = "BILLED" THEN "today" ELSE @]
          ELSE dbInvoices
    /\ dbNotifications' =
          IF invoices[c][invoiceId].exists /\ status = "PAID"
          THEN addNotification(dbNotifications, now, invoices[c][invoiceId].userId,
                               "INVOICES", 0)
          ELSE dbNotifications
    /\ UNCHANGED <<dbProjects, dbApplications, dbUsers, cacheVars, authVars, task>>
    /\ UNCHANGED formVars
    /\ activeToasts' =
          IF invoices[c][invoiceId].exists /\ status = "PAID"
          THEN [activeToasts EXCEPT ![c] =
                   notifyToast(showToast(@, "INFO"), c, invoices[c][invoiceId].userId,
                               "SUCCESS")]
          ELSE [activeToasts EXCEPT ![c] = showToast(@, "INFO")]
    /\ UNCHANGED thrown

\* ----------------------------------------------------------- handleCreateInvoice
\* up to the POST to the invoice webhook; invoiceId 0 stands for "not given"
handleCreateInvoice(c, now, projectId, amount, invoiceId) ==
    /\ Call
    /\ task[c].pc = "idle"
    /\ IF currentUser[c].id = NoUser \/ ~projects[c][projectId].exists
       THEN /\ activeToasts' =
                  IF currentUser[c].id = NoUser THEN activeToasts
                  ELSE [activeToasts EXCEPT ![c] = showToast(@, "ERROR")]
            /\ thrown' = [thrown EXCEPT ![c] = FALSE]
            /\ UNCHANGED task
       ELSE /\ UNCHANGED uiVars
            /\ task' = [task EXCEPT ![c] =
                 [Idle EXCEPT !.pc = "webhook", !.projectId = projectId,
                              !.invoiceId = IF invoiceId # 0 THEN invoiceId ELSE now,
                              !.existing = (invoiceId # 0),
                              !.userId = currentUser[c].id, !.amount = amount,
                              !.admin = FindAdmin(c)]]
    /\ UNCHANGED <<dbVars, cacheVars, authVars>>
    /\ UNCHANGED formVars

BilledInvoice(projectId, userId, amount, pdfUrl) ==
    [exists |-> TRUE, projectId |-> projectId, userId |-> userId, amount |-> amount,
     issueDate |-> "today", status |-> "BILLED", pdfUrl |-> pdfUrl]

\* storage upload, with the local blob URL as fallback
PersistentUrl(storageOk) == IF storageOk THEN "persistent" ELSE "local"

\* the invoice write without "if (!response.ok) throw" before it
InvoiceWrittenUnchecked(t, responseOk, ok) ==
    IF t.existing THEN ok /\ CanUpdate(dbInvoices, t.invoiceId) ELSE ok

\* nothing threw up to and including the invoice write: the webhook answered
\* with response.ok and the write went through
InvoiceWritten(t, responseOk, ok) ==
    IF t.existing THEN responseOk /\ ok /\ CanUpdate(dbInvoices, t.invoiceId)
    ELSE responseOk /\ ok

\* the webhook answered: response.ok, then upload and the invoice write
InvoiceResponse(c, now, responseOk, storageOk, ok) ==
    /\ task[c].pc = "webhook"
    /\ LET t == task[c]
           written == InvoiceWritten(t, responseOk, ok)
       IN  /\ dbInvoices' =
                 IF ~written THEN dbInvoices
                 ELSE IF t.existing
                 THEN [dbInvoices EXCEPT ![t.invoiceId].amount = t.amount,
                                         ![t.invoiceId].issueDate = "today",
                                         ![t.invoiceId].status = "BILLED",
                                         ![t.invoiceId].pdfUrl = PersistentUrl(storageOk)]
                 ELSE setDoc(dbInvoices, t.invoiceId,
                             BilledInvoice(t.projectId, t.userId, t.amount,
                                           PersistentUrl(storageOk)))
           /\ dbNotifications' =
                 IF written /\ t.admin # NoUser
                 THEN addNotification(dbNotifications, now, t.admin, "INVOICES", 0)
                 ELSE dbNotifications
           /\ activeToasts' =
                 IF ~written
                 THEN [activeToasts EXCEPT ![c] = showToast(@, "ERROR")]
                 ELSE IF t.admin # NoUser
                 THEN [activeToasts EXCEPT ![c] =
                          notifyToast(showToast(@, "SUCCESS"), c, t.admin, "INFO")]
                 ELSE [activeToasts EXCEPT ![c] = showToast(@, "SUCCESS")]
           /\ thrown' = [thrown EXCEPT ![c] = ~written]
    /\ task' = [task EXCEPT ![c] = Idle]
    /\ UNCHANGED <<dbProjects, dbApplications, dbUsers, cacheVars, authVars, calls>>
    /\ UNCHANGED formVars

\* ==================================================================== session
Views == {"LOGIN", "DASHBOARD", "INVOICES", "PROFILE"}

\* the collections and handler state the session handlers leave alone
workVars == <<dbProjects, dbApplications, dbInvoices, cacheVars, task, calls>>

\* Pending/Rejected partners can only see Profile
IsRestricted(user) == user.role = "PARTNER" /\ user.status # "ACTIVE"

\* the status-restriction effect, run after every change of currentUser or view
Restricted(user, v) == IF IsRestricted(user) /\ v # "PROFILE" THEN "PROFILE" ELSE v

\* the toast of that effect, shown when it forces the view
restrictionToast(toasts, user, v) ==
    IF IsRestricted(user) /\ v # "PROFILE" THEN showToast(toasts, "WARNING") ELSE toasts

\* an auth state change: the signed-in user (NoUser for none) and what produced it
AuthEvent(user, cause) == [user |-> user, cause |-> cause]

\* auth.signOut(): the listener is told only when a session ends
signOut(c, cause) ==
    /\ session' = [session EXCEPT ![c] = NoUser]
    /\ authEvents' = IF session[c] # NoUser
                     THEN [authEvents EXCEPT ![c] = Append(@, AuthEvent(NoUser, cause))]
                     ELSE authEvents

\* signInWithEmailAndPassword from the login form
signIn(c, u) ==
    /\ currentUser[c].id = NoUser
    /\ session[c] # u
    /\ Len(authEvents[c]) < MaxEvents
    /\ session' = [session EXCEPT ![c] = u]
    /\ authEvents' = [authEvents EXCEPT ![c] = Append(@, AuthEvent(u, "signin"))]
    /\ UNCHANGED <<dbVars, workVars, currentUser, view, selectedUserProfileId, viewParams, history,
                   hasInitialAuthCheck, isIntentionalLogout, listener>>
    /\ UNCHANGED formVars
    /\ UNCHANGED uiVars

\* the identity provider drops the session (expiry, sign-out elsewhere)
SessionLost(c) ==
    /\ session[c] # NoUser
    /\ Len(authEvents[c]) < MaxEvents
    /\ session' = [session EXCEPT ![c] = NoUser]
    /\ authEvents' = [authEvents EXCEPT ![c] = Append(@, AuthEvent(NoUser, "lost"))]
    /\ UNCHANGED <<dbVars, workVars, currentUser, view, selectedUserProfileId, viewParams, history,
                   hasInitialAuthCheck, isIntentionalLogout, listener>>
    /\ UNCHANGED formVars
    /\ UNCHANGED uiVars

\* the listener's branch for firebaseUser === null
NoSession(c) ==
    IF isIntentionalLogout[c]
    THEN /\ isIntentionalLogout' = [isIntentionalLogout EXCEPT ![c] = FALSE]
         /\ currentUser' = [currentUser EXCEPT ![c] = NoCurrentUser]
         /\ view' = [view EXCEPT ![c] = "LOGIN"]
         /\ UNCHANGED <<hasInitialAuthCheck, activeToasts>>
    ELSE IF currentUser[c].id = AdminId
    THEN UNCHANGED <<isIntentionalLogout, currentUser, view, hasInitialAuthCheck,
                     activeToasts>>
    ELSE IF currentUser[c].id # NoUser /\ hasInitialAuthCheck[c]
    THEN UNCHANGED <<isIntentionalLogout, currentUser, view, hasInitialAuthCheck,
                     activeToasts>>
    ELSE IF ~hasInitialAuthCheck[c]
    THEN /\ hasInitialAuthCheck' = [hasInitialAuthCheck EXCEPT ![c] = TRUE]
         /\ view' = [view EXCEPT ![c] = Restricted(currentUser[c], "LOGIN")]
         /\ activeToasts' = [activeToasts EXCEPT ![c] =
                                restrictionToast(@, currentUser[c], "LOGIN")]
         /\ UNCHANGED <<isIntentionalLogout, currentUser>>
    ELSE UNCHANGED <<isIntentionalLogout, currentUser, view, hasInitialAuthCheck,
                     activeToasts>>

\* the listener is called with the next auth state change; a call for a
\* change to no session also runs while an earlier call awaits its lookup
onAuthStateChanged(c) ==
    /\ authEvents[c] # <<>>
    /\ listener[c].pc = "idle" \/ Head(authEvents[c]).user = NoUser
    /\ authEvents' = [authEvents EXCEPT ![c] = Tail(@)]
    /\ IF Head(authEvents[c]).user # NoUser
       THEN /\ listener' = [listener EXCEPT ![c] =
                   [pc |-> "lookup", user |-> Head(authEvents[c]).user, tries |-> 0]]
            /\ UNCHANGED <<isIntentionalLogout, currentUser, view, hasInitialAuthCheck,
                           activeToasts>>
       ELSE /\ NoSession(c)
            /\ UNCHANGED listener
    /\ UNCHANGED <<dbVars, workVars, selectedUserProfileId, viewParams, history, session>>
    /\ UNCHANGED formVars
    /\ UNCHANGED thrown

\* the listener after its lookups: the profile was found
ProfileFound(c, u) ==
    IF ~dbUsers[u].jobPortalEnabled /\ ~hasInitialAuthCheck[c]
    THEN /\ isIntentionalLogout' = [isIntentionalLogout EXCEPT ![c] = TRUE]
         /\ signOut(c, "forced")
         /\ currentUser' = [currentUser EXCEPT ![c] = NoCurrentUser]
         /\ view' = [view EXCEPT ![c] = "LOGIN"]
         /\ activeToasts' = [activeToasts EXCEPT ![c] = showToast(@, "ERROR")]
         /\ UNCHANGED hasInitialAuthCheck
    ELSE /\ currentUser' = [currentUser EXCEPT ![c] = LoggedIn(u, dbUsers[u])]
         /\ hasInitialAuthCheck' = [hasInitialAuthCheck EXCEPT ![c] = TRUE]
         /\ view' = [view EXCEPT ![c] =
                Restricted(LoggedIn(u, dbUsers[u]),
                           IF view[c] = "LOGIN" THEN "DASHBOARD" ELSE view[c])]
         /\ activeToasts' = [activeToasts EXCEPT ![c] =
                restrictionToast(
                    IF view[c] = "LOGIN" /\ currentUser[c].id = NoUser
                    THEN showToast(@, "INFO") ELSE @,
                    LoggedIn(u, dbUsers[u]),
                    IF view[c] = "LOGIN" THEN "DASHBOARD" ELSE view[c])]
         /\ UNCHANGED <<isIntentionalLogout, session, authEvents>>

\* the listener after its lookups: no profile for the email
ProfileNotFound(c) ==
    IF ~hasInitialAuthCheck[c]
    THEN /\ isIntentionalLogout' = [isIntentionalLogout EXCEPT ![c] = TRUE]
         /\ signOut(c, "forced")
         /\ currentUser' = [currentUser EXCEPT ![c] = NoCurrentUser]
         /\ view' = [view EXCEPT ![c] = "LOGIN"]
         /\ activeToasts' = [activeToasts EXCEPT ![c] = showToast(@, "ERROR")]
         /\ UNCHANGED hasInitialAuthCheck
    ELSE UNCHANGED <<isIntentionalLogout, session, authEvents, currentUser, view,
                     hasInitialAuthCheck, activeToasts>>

\* the retry loop entered on every empty first lookup
EntersRetryLoopAlways(c, empty) == empty

\* if (snapshot.empty && !hasInitialAuthCheck.current), after the first lookup
EntersRetryLoop(c, empty) == empty /\ ~hasInitialAuthCheck[c]

\* one getDocs of the listener: the first lookup, or one round of the retry loop
LookupUser(c, ok) ==
    /\ listener[c].pc \in {"lookup", "retry"}
    /\ Len(authEvents[c]) < MaxEvents
    /\ LET u == listener[c].user
           empty == ~dbUsers[u].exists
           tries == IF listener[c].pc = "retry" THEN listener[c].tries + 1 ELSE 0
       IN  IF ~ok
           THEN /\ view' = IF currentUser[c].id = NoUser
                           THEN [view EXCEPT ![c] = "LOGIN"] ELSE view
                /\ listener' = [listener EXCEPT ![c] = NoLookup]
                /\ UNCHANGED <<isIntentionalLogout, session, authEvents, currentUser,
                               hasInitialAuthCheck, activeToasts>>
           ELSE IF listener[c].pc = "lookup" /\ EntersRetryLoop(c, empty)
           THEN /\ listener' = [listener EXCEPT ![c].pc = "retry"]
                /\ UNCHANGED <<isIntentionalLogout, session, authEvents, currentUser,
                               view, hasInitialAuthCheck, activeToasts>>
           ELSE IF empty /\ listener[c].pc = "retry" /\ tries < MaxRetries
           THEN /\ listener' = [listener EXCEPT ![c].tries = tries]
                /\ UNCHANGED <<isIntentionalLogout, session, authEvents, currentUser,
                               view, hasInitialAuthCheck, activeToasts>>
           ELSE /\ listener' = [listener EXCEPT ![c] = NoLookup]
                /\ IF empty THEN ProfileNotFound(c) ELSE ProfileFound(c, u)
    /\ UNCHANGED <<dbVars, workVars, selectedUserProfileId, viewParams, history>>
    /\ UNCHANGED formVars
    /\ UNCHANGED thrown

\* handleLogin('shared-admin'): the operator login of the login screen
handleLogin(c) ==
    /\ currentUser[c].id = NoUser
    /\ currentUser' = [currentUser EXCEPT ![c] = LoggedIn(AdminId, AdminUser)]
    /\ view' = [view EXCEPT ![c] = "DASHBOARD"]
    /\ UNCHANGED <<dbVars, workVars, selectedUserProfileId, viewParams, history, hasInitialAuthCheck,
                   isIntentionalLogout, session, authEvents, listener>>
    /\ UNCHANGED formVars
    /\ activeToasts' = [activeToasts EXCEPT ![c] = showToast(@, "INFO")]
    /\ UNCHANGED thrown

handleLogout(c) ==
    /\ currentUser[c].id # NoUser
    /\ Len(authEvents[c]) < MaxEvents
    /\ isIntentionalLogout' = [isIntentionalLogout EXCEPT ![c] = TRUE]
    /\ hasInitialAuthCheck' = [hasInitialAuthCheck EXCEPT ![c] = FALSE]
    /\ signOut(c, "logout")
    /\ currentUser' = [currentUser EXCEPT ![c] = NoCurrentUser]
    /\ view' = [view EXCEPT ![c] = "LOGIN"]
    /\ viewParams' = [viewParams EXCEPT ![c] = NoParams]
    /\ selectedUserProfileId' = [selectedUserProfileId EXCEPT ![c] = NoUser]
    /\ history' = [history EXCEPT ![c] = <<>>]
    /\ UNCHANGED <<dbVars, workVars, listener>>
    /\ UNCHANGED formVars
    /\ activeToasts' = [activeToasts EXCEPT ![c] = <<>>]
    /\ UNCHANGED thrown

handleChangeView(c, newView, params) ==
    /\ currentUser[c].id # NoUser
    /\ view' = [view EXCEPT ![c] = Restricted(currentUser[c], newView)]
    /\ viewParams' = [viewParams EXCEPT ![c] = params]
    /\ selectedUserProfileId' =
          IF newView # "PROFILE"
          THEN [selectedUserProfileId EXCEPT ![c] = NoUser] ELSE selectedUserProfileId
    /\ UNCHANGED <<dbVars, workVars, currentUser, history, hasInitialAuthCheck,
                   isIntentionalLogout, session, authEvents, listener>>
    /\ UNCHANGED formVars
    /\ activeToasts' = [activeToasts EXCEPT ![c] =
                           restrictionToast(@, currentUser[c], newView)]
    /\ UNCHANGED thrown

HistoryItem(c, context) ==
    [view |-> view[c], viewParams |-> MergeParams(viewParams[c], context),
     selectedUserProfileId |-> selectedUserProfileId[c]]

handleViewProfile(c, userId, context) ==
    /\ currentUser[c].id # NoUser
    /\ history' = [history EXCEPT ![c] = Append(@, HistoryItem(c, context))]
    /\ selectedUserProfileId' = [selectedUserProfileId EXCEPT ![c] = userId]
    /\ viewParams' = [viewParams EXCEPT ![c] = NoParams]
    /\ view' = [view EXCEPT ![c] = "PROFILE"]
    /\ UNCHANGED <<dbVars, workVars, currentUser, hasInitialAuthCheck,
                   isIntentionalLogout, session, authEvents, listener>>
    /\ UNCHANGED formVars
    /\ UNCHANGED uiVars

\* the stack with its first frame removed
PopFirst(stack) == Tail(stack)

\* history[history.length - 1] and history.slice(0, history.length - 1)
Top(stack) == stack[Len(stack)]
Pop(stack) == SubSeq(stack, 1, Len(stack) - 1)

handleBack(c) ==
    /\ currentUser[c].id # NoUser
    /\ IF history[c] = <<>>
       THEN /\ view' = [view EXCEPT ![c] = Restricted(currentUser[c], "DASHBOARD")]
            /\ selectedUserProfileId' = [selectedUserProfileId EXCEPT ![c] = NoUser]
            /\ viewParams' = [viewParams EXCEPT ![c] = NoParams]
            /\ UNCHANGED history
       ELSE /\ history' = [history EXCEPT ![c] = Pop(@)]
            /\ view' = [view EXCEPT ![c] = Restricted(currentUser[c], Top(history[c]).view)]
            /\ viewParams' = [viewParams EXCEPT ![c] = Top(history[c]).viewParams]
            /\ selectedUserProfileId' = [selectedUserProfileId EXCEPT ![c] =
                   Top(history[c]).selectedUserProfileId]
    /\ UNCHANGED <<dbVars, workVars, currentUser, hasInitialAuthCheck,
                   isIntentionalLogout, session, authEvents, listener>>
    /\ UNCHANGED formVars
    /\ activeToasts' = [activeToasts EXCEPT ![c] =
          restrictionToast(@, currentUser[c],
                           IF history[c] = <<>> THEN "DASHBOARD"
                           ELSE Top(history[c]).view)]
    /\ UNCHANGED thrown

\* ----------------------------------------------------------- operator actions
\* updateDocument('users', userId, {status}), not awaited
UpdateStatus(userId, status) ==
    IF CanUpdate(dbUsers, userId)
    THEN [dbUsers EXCEPT ![userId].status = status] ELSE dbUsers

handleApprovePartner(c, now, userId) ==
    /\ dbUsers' = UpdateStatus(userId, "ACTIVE")
    /\ dbNotifications' = addNotification(dbNotifications, now, userId, "PROFILE", 0)
    /\ UNCHANGED <<workVars, authVars>>
    /\ UNCHANGED formVars
    /\ activeToasts' = [activeToasts EXCEPT ![c] =
                           notifyToast(showToast(@, "SUCCESS"), c, userId, "SUCCESS")]
    /\ UNCHANGED thrown

handleRejectPartner(c, now, userId) ==
    /\ dbUsers' = UpdateStatus(userId, "REJECTED")
    /\ dbNotifications' = addNotification(dbNotifications, now, userId, "undefined", 0)
    /\ UNCHANGED <<workVars, authVars>>
    /\ UNCHANGED formVars
    /\ activeToasts' = [activeToasts EXCEPT ![c] =
                           notifyToast(showToast(@, "INFO"), c, userId, "ERROR")]
    /\ UNCHANGED thrown

handleUpdateUserStatus(c, now, userId, status) ==
    /\ dbUsers' = UpdateStatus(userId, status)
    /\ dbNotifications' =
          IF status \in {"ACTIVE", "REJECTED"}
          THEN addNotification(dbNotifications, now, userId, "undefined", 0)
          ELSE dbNotifications
    /\ UNCHANGED <<workVars, authVars>>
    /\ UNCHANGED formVars
    /\ activeToasts' =
          IF status = "ACTIVE"
          THEN [activeToasts EXCEPT ![c] =
                   notifyToast(showToast(@, "SUCCESS"), c, userId, "SUCCESS")]
          ELSE IF status = "REJECTED"
          THEN [activeToasts EXCEPT ![c] =
                   notifyToast(showToast(@, "WARNING"), c, userId, "WARNING")]
          ELSE activeToasts
    /\ UNCHANGED thrown

\* signUp after createUserWithEmailAndPassword has signed the new identity in:
\* the user document of the registration form is written
signUp(c) ==
    /\ session[c] # NoUser
    /\ ~dbUsers[session[c]].exists
    /\ dbUsers' = setDoc(dbUsers, session[c], PartnerUser("pending", FALSE))
    /\ UNCHANGED <<dbProjects, dbApplications, dbInvoices, dbNotifications,
                   cacheVars, authVars, task, calls>>
    /\ UNCHANGED formVars
    /\ UNCHANGED uiVars

\* the app of client P has just been constructed; the operator works in client A
InitAuth ==
    /\ dbProjects = [i \in ProjectIds |-> NoProject]
    /\ dbApplications = [i \in ApplicationIds |-> NoApplication]
    /\ dbInvoices = [i \in InvoiceIds |-> NoInvoice]
    /\ dbNotifications = [i \in NotificationIds |-> NoNotification]
    /\ dbUsers \in {[u \in UserIds |-> IF u = AdminId THEN AdminUser ELSE d] :
                       d \in {NoUserDoc} \cup {PartnerUser(st, en) :
                                  st \in {"ACTIVE", "pending"}, en \in BOOLEAN}}
    /\ projects = [c \in Clients |-> [i \in ProjectIds |-> NoProject]]
    /\ applications = [c \in AdminClients |-> [i \in ApplicationIds |-> NoApplication]]
    /\ invoices = [c \in AdminClients |-> [i \in InvoiceIds |-> NoInvoice]]
    /\ users = [c \in PartnerClients |-> [u \in UserIds |-> NoUserDoc]]
    /\ currentUser = [c \in Clients |-> IF c \in AdminClients
                                       THEN LoggedIn(AdminId, AdminUser)
                                       ELSE NoCurrentUser]
    /\ view = [c \in Clients |-> IF c \in AdminClients THEN "DASHBOARD" ELSE "LOGIN"]
    /\ selectedUserProfileId = [c \in Clients |-> NoUser]
    /\ viewParams = [c \in Clients |-> NoParams]
    /\ history = [c \in Clients |-> <<>>]
    /\ hasInitialAuthCheck = [c \in Clients |-> FALSE]
    /\ isIntentionalLogout = [c \in Clients |-> FALSE]
    /\ session \in {[c \in Clients |-> IF c \in PartnerClients THEN u ELSE NoUser] :
                       u \in {NoUser} \cup PartnerIds}
    /\ authEvents = [c \in Clients |-> IF c \in PartnerClients
                                      THEN <<AuthEvent(session[c], "start")>> ELSE <<>>]
    /\ listener = [c \in Clients |-> NoLookup]
    /\ task = [c \in Clients |-> Idle]
    /\ calls = 0
    /\ InitForms
    /\ InitToasts

UserStatuses == {"ACTIVE", "REJECTED", "pending"}

NextAuth ==
    \/ \E c \in PartnerClients, u \in PartnerIds : signIn(c, u)
    \/ \E c \in PartnerClients : SessionLost(c)
    \/ \E c \in PartnerClients : signUp(c)
    \/ \E c \in PartnerClients : onAuthStateChanged(c)
    \/ \E c \in PartnerClients, ok \in BOOLEAN : LookupUser(c, ok)
    \/ \E c \in PartnerClients : handleLogin(c)
    \/ \E c \in PartnerClients : handleLogout(c)
    \/ \E c \in PartnerClients, v \in Views \ {"LOGIN"}, params \in Params :
          handleChangeView(c, v, params)
    \/ \E c \in PartnerClients, u \in UserIds, context \in Params :
          Len(history[c]) < MaxHistory /\ handleViewProfile(c, u, context)
    \/ \E c \in PartnerClients : handleBack(c)
    \/ \E c \in AdminClients, now \in NotificationIds, u \in PartnerIds :
          handleApprovePartner(c, now, u)
    \/ \E c \in AdminClients, now \in NotificationIds, u \in PartnerIds :
          handleRejectPartner(c, now, u)
    \/ \E c \in AdminClients, now \in NotificationIds, u \in PartnerIds,
          st \in UserStatuses : handleUpdateUserStatus(c, now, u, st)

SpecAuth == InitAuth /\ [][NextAuth]_vars

\* ------------------------------------------------- the payload of the webhook
\* handleCreateInvoice(projectId, amount) up to the POST: the totals it sends
InvoicePayload(amount) ==
    /\ payloadAmount' = amount
    /\ payload' = Payload(amount)
    /\ UNCHANGED <<dbVars, cacheVars, authVars, task, calls, notifications,
                   bankAccountInfo, formData>>
    /\ UNCHANGED uiVars

NextPayload == \E amount \in PayloadAmounts : InvoicePayload(amount)

SpecPayload == Init /\ [][NextPayload]_vars

\* ------------------------------------------------------------ notifications
\* notification ids of the notification handlers
MaxNotifyId == 2
NotifyIds == 1..MaxNotifyId

\* query(collection(db, 'notifications'), where('userId', '==', userId))
UserNotifications(store, userId) ==
    [i \in DOMAIN store |->
        IF store[i].exists /\ store[i].userId = userId THEN store[i] ELSE NoNotification]

\* subscribeToNotifications(currentUser.id, data => setNotifications(data))
SnapshotNotifications(c) ==
    /\ currentUser[c].id # NoUser
    /\ notifications[c] # UserNotifications(dbNotifications, currentUser[c].id)
    /\ notifications' = [notifications EXCEPT ![c] =
                            UserNotifications(dbNotifications, currentUser[c].id)]
    /\ UNCHANGED <<dbVars, cacheVars, authVars, task, calls, payloadAmount, payload,
                   bankAccountInfo, formData>>
    /\ UNCHANGED uiVars

\* the store after updateDocument('notifications', n.id, {isRead: true}) for
\* every cached n that is unread and addressed to userId
MarkAllRead(store, cached, userId) ==
    [i \in DOMAIN store |->
        IF /\ cached[i].exists /\ ~cached[i].isRead /\ cached[i].userId = userId
           /\ store[i].exists
        THEN [store[i] EXCEPT !.isRead = TRUE] ELSE store[i]]

handleMarkAllNotificationsRead(c) ==
    /\ currentUser[c].id # NoUser
    /\ dbNotifications' = MarkAllRead(dbNotifications, notifications[c], currentUser[c].id)
    /\ UNCHANGED <<dbProjects, dbApplications, dbInvoices, dbUsers, cacheVars, authVars,
                   task, calls, formVars>>
    /\ UNCHANGED uiVars

handleMarkNotificationAsRead(c, id) ==
    /\ dbNotifications' = IF CanUpdate(dbNotifications, id)
                          THEN [dbNotifications EXCEPT ![id].isRead = TRUE]
                          ELSE dbNotifications
    /\ UNCHANGED <<dbProjects, dbApplications, dbInvoices, dbUsers, cacheVars, authVars,
                   task, calls, formVars>>
    /\ UNCHANGED uiVars

\* the notifications the store may hold when the sessions start
\* the NotificationType the message handlers notify with
NotificationTypes == {"MESSAGE"}

\* one call of addNotification(userId, type, title, message, link), as the
\* message handlers make it for the receiver: the write is requested and its
\* rejection goes to console.error, then the toast for the local user
notify(c, now, userId, type, ok) ==
    /\ currentUser[c].id # NoUser
    /\ dbNotifications' = IF ok THEN addNotification(dbNotifications, now, userId, "undefined", 0)
                          ELSE dbNotifications
    /\ activeToasts' = [activeToasts EXCEPT ![c] = notifyToast(@, c, userId, type)]
    /\ UNCHANGED <<dbProjects, dbApplications, dbInvoices, dbUsers, cacheVars, authVars,
                   task, calls>>
    /\ UNCHANGED formVars
    /\ UNCHANGED thrown

StoredNotifications ==
    {NoNotification} \cup
        {[Notification(u, "undefined", 0) EXCEPT !.isRead = r] : u \in UserIds, r \in BOOLEAN}

InitNotify ==
    /\ dbProjects = [i \in ProjectIds |-> NoProject]
    /\ dbApplications = [i \in ApplicationIds |-> NoApplication]
    /\ dbInvoices = [i \in InvoiceIds |-> NoInvoice]
    /\ dbNotifications \in [NotifyIds -> StoredNotifications]
    /\ dbUsers = [u \in UserIds |-> IF u = AdminId THEN AdminUser
                                 ELSE PartnerUser("ACTIVE", TRUE)]
    /\ projects = [c \in Clients |-> [i \in ProjectIds |-> NoProject]]
    /\ applications = [c \in AdminClients |-> [i \in ApplicationIds |-> NoApplication]]
    /\ invoices = [c \in AdminClients |-> [i \in InvoiceIds |-> NoInvoice]]
    /\ users = [c \in PartnerClients |-> [u \in UserIds |-> NoUserDoc]]
    /\ currentUser = [c \in Clients |->
                        LoggedIn(ClientUser(c), IF c \in AdminClients THEN AdminUser
                                                ELSE PartnerUser("ACTIVE", TRUE))]
    /\ view = [c \in Clients |-> "DASHBOARD"]
    /\ selectedUserProfileId = [c \in Clients |-> NoUser]
    /\ viewParams = [c \in Clients |-> NoParams]
    /\ history = [c \in Clients |-> <<>>]
    /\ hasInitialAuthCheck = [c \in Clients |-> c \in PartnerClients]
    /\ isIntentionalLogout = [c \in Clients |-> FALSE]
    /\ session = [c \in Clients |-> IF c \in PartnerClients THEN "u1" ELSE NoUser]
    /\ authEvents = [c \in Clients |-> <<>>]
    /\ listener = [c \in Clients |-> NoLookup]
    /\ task = [c \in Clients |-> Idle]
    /\ calls = 0
    /\ InitToasts
    /\ payloadAmount = Zero
    /\ payload = NoPayload
    /\ notifications = [c \in Clients |-> [i \in NotifyIds |-> NoNotification]]
    /\ bankAccountInfo = [u \in PartnerIds |-> <<>>]
    /\ formData = InitialFormData

NextNotify ==
    \/ \E c \in Clients : SnapshotNotifications(c)
    \/ \E c \in Clients : handleMarkAllNotificationsRead(c)
    \/ \E c \in Clients, id \in NotifyIds : handleMarkNotificationAsRead(c, id)
    \/ \E c \in AdminClients, now \in NotifyIds, u \in PartnerIds :
          handleApprovePartner(c, now, u)
    \/ \E c \in AdminClients, now \in NotifyIds, u \in PartnerIds :
          handleRejectPartner(c, now, u)
    \/ \E c \in Clients, now \in NotifyIds, u \in UserIds, type \in NotificationTypes,
          ok \in BOOLEAN : notify(c, now, u, type, ok)

SpecNotify == InitNotify /\ [][NextNotify]_vars

\* ----------------------------------------------------------------- Profile
\* what the user can type into a bank field
FieldValues == {<<>>, <<"a">>, <<"\"", "\\">>}

\* bankAccountInfo values the store may hold that no profile save wrote
RawBankInfos == {<<>>, <<"a">>, <<"{", "\"", "a", "\"", "}">>}

\* the effect of Profile on [targetUser]: parse the stored bank info
ProfileSync(u) ==
    /\ formData' =
          IF bankAccountInfo[u] # <<>> /\ JSONParse(bankAccountInfo[u], InitialFormData).ok
          THEN JSONParse(bankAccountInfo[u], InitialFormData).value
          ELSE InitialFormData
    /\ UNCHANGED <<dbVars, cacheVars, authVars, task, calls, payloadAmount, payload,
                   notifications, bankAccountInfo>>
    /\ UNCHANGED uiVars

\* onChange of a bank field of the form
EditBankField(f, value) ==
    /\ formData' = [formData EXCEPT ![f] = value]
    /\ UNCHANGED <<dbVars, cacheVars, authVars, task, calls, payloadAmount, payload,
                   notifications, bankAccountInfo>>
    /\ UNCHANGED uiVars

\* handleSave of Profile and handleUpdateProfile(targetUser.id, updateData)
handleSave(u) ==
    /\ bankAccountInfo' = [bankAccountInfo EXCEPT ![u] = JSONStringify(formData)]
    /\ UNCHANGED <<dbVars, cacheVars, authVars, task, calls, payloadAmount, payload,
                   notifications, formData>>
    /\ activeToasts' = [c \in Clients |->
                           IF currentUser[c].id = u THEN showToast(activeToasts[c], "SUCCESS")
                           ELSE activeToasts[c]]
    /\ UNCHANGED thrown

InitProfile ==
    /\ dbProjects = [i \in ProjectIds |-> NoProject]
    /\ dbApplications = [i \in ApplicationIds |-> NoApplication]
    /\ dbInvoices = [i \in InvoiceIds |-> NoInvoice]
    /\ dbNotifications = [i \in NotificationIds |-> NoNotification]
    /\ dbUsers = [u \in UserIds |-> IF u = AdminId THEN AdminUser
                                 ELSE PartnerUser("ACTIVE", TRUE)]
    /\ projects = [c \in Clients |-> [i \in ProjectIds |-> NoProject]]
    /\ applications = [c \in AdminClients |-> [i \in ApplicationIds |-> NoApplication]]
    /\ invoices = [c \in AdminClients |-> [i \in InvoiceIds |-> NoInvoice]]
    /\ users = [c \in PartnerClients |-> [u \in UserIds |-> NoUserDoc]]
    /\ currentUser = [c \in Clients |->
                        LoggedIn(ClientUser(c), IF c \in AdminClients THEN AdminUser
                                                ELSE PartnerUser("ACTIVE", TRUE))]
    /\ view = [c \in Clients |-> "PROFILE"]
    /\ selectedUserProfileId = [c \in Clients |-> NoUser]
    /\ viewParams = [c \in Clients |-> NoParams]
    /\ history = [c \in Clients |-> <<>>]
    /\ hasInitialAuthCheck = [c \in Clients |-> c \in PartnerClients]
    /\ isIntentionalLogout = [c \in Clients |-> FALSE]
    /\ session = [c \in Clients |-> IF c \in PartnerClients THEN "u1" ELSE NoUser]
    /\ authEvents = [c \in Clients |-> <<>>]
    /\ listener = [c \in Clients |-> NoLookup]
    /\ task = [c \in Clients |-> Idle]
    /\ calls = 0
    /\ InitToasts
    /\ payloadAmount = Zero
    /\ payload = NoPayload
    /\ notifications = [c \in Clients |-> [i \in NotificationIds |-> NoNotification]]
    /\ bankAccountInfo \in [PartnerIds -> RawBankInfos]
    /\ formData = InitialFormData

NextProfile ==
    \/ \E u \in PartnerIds : ProfileSync(u)
    \/ \E f \in BankKeys, value \in FieldValues : EditBankField(f, value)
    \/ \E u \in PartnerIds : handleSave(u)

SpecProfile == InitProfile /\ [][NextProfile]_vars

\* ---------------------------------------------------------------- navigation
\* frames on the history stack
MaxDepth == 3

\* a partner, active or still pending, is logged in at client P
InitNav ==
    /\ dbProjects = [i \in ProjectIds |-> NoProject]
    /\ dbApplications = [i \in ApplicationIds |-> NoApplication]
    /\ dbInvoices = [i \in InvoiceIds |-> NoInvoice]
    /\ dbNotifications = [i \in NotificationIds |-> NoNotification]
    /\ \E st \in {"ACTIVE", "pending"} :
          /\ dbUsers = [u \in UserIds |-> IF u = AdminId THEN AdminUser
                                       ELSE PartnerUser(st, TRUE)]
          /\ currentUser = [c \in Clients |->
                              LoggedIn(ClientUser(c), IF c \in AdminClients THEN AdminUser
                                                      ELSE PartnerUser(st, TRUE))]
    /\ projects = [c \in Clients |-> [i \in ProjectIds |-> NoProject]]
    /\ applications = [c \in AdminClients |-> [i \in ApplicationIds |-> NoApplication]]
    /\ invoices = [c \in AdminClients |-> [i \in InvoiceIds |-> NoInvoice]]
    /\ users = [c \in PartnerClients |-> [u \in UserIds |-> NoUserDoc]]
    /\ view = [c \in Clients |-> Restricted(currentUser[c], "DASHBOARD")]
    /\ selectedUserProfileId = [c \in Clients |-> NoUser]
    /\ viewParams = [c \in Clients |-> NoParams]
    /\ history = [c \in Clients |-> <<>>]
    /\ hasInitialAuthCheck = [c \in Clients |-> c \in PartnerClients]
    /\ isIntentionalLogout = [c \in Clients |-> FALSE]
    /\ session = [c \in Clients |-> IF c \in PartnerClients THEN "u1" ELSE NoUser]
    /\ authEvents = [c \in Clients |-> <<>>]
    /\ listener = [c \in Clients |-> NoLookup]
    /\ task = [c \in Clients |-> Idle]
    /\ calls = 0
    /\ InitForms
    /\ InitToasts

NextNav ==
    \/ \E c \in PartnerClients, v \in Views \ {"LOGIN"}, params \in Params :
          handleChangeView(c, v, params)
    \/ \E c \in PartnerClients, u \in UserIds, context \in Params :
          Len(history[c]) < MaxDepth /\ handleViewProfile(c, u, context)
    \/ \E c \in PartnerClients : handleBack(c)

SpecNav == InitNav /\ [][NextNav]_vars

\* --------------------------------------------------------------------- hiring
\* two projects, each with an application of the partner, all delivered to
\* the sessions: the state after two CreateProject and two Apply
MaxHireProjects == 2
HireProjects == 1..MaxHireProjects
\* ids Date.now() can give a notification of these sessions
MaxHireNotificationId == 2
HireNotificationIds == 1..MaxHireNotificationId
\* handlers still to be invoked
HireCalls == 2

InitHire ==
    /\ dbProjects = [i \in HireProjects |-> NewProject(1)]
    /\ dbApplications = [i \in HireProjects |-> NewApplication(i, "u1", 2)]
    /\ dbInvoices = [i \in InvoiceIds |-> NoInvoice]
    /\ dbNotifications = [i \in HireNotificationIds |-> NoNotification]
    /\ dbUsers = [u \in UserIds |-> IF u = AdminId THEN AdminUser
                                 ELSE PartnerUser("ACTIVE", TRUE)]
    /\ projects = [c \in Clients |-> dbProjects]
    /\ applications = [c \in AdminClients |-> dbApplications]
    /\ invoices = [c \in AdminClients |-> dbInvoices]
    /\ users = [c \in PartnerClients |-> dbUsers]
    /\ currentUser = [c \in Clients |->
                        LoggedIn(ClientUser(c), IF c \in AdminClients THEN AdminUser
                                                ELSE PartnerUser("ACTIVE", TRUE))]
    /\ view = [c \in Clients |-> "DASHBOARD"]
    /\ selectedUserProfileId = [c \in Clients |-> NoUser]
    /\ viewParams = [c \in Clients |-> NoParams]
    /\ history = [c \in Clients |-> <<>>]
    /\ hasInitialAuthCheck = [c \in Clients |-> c \in PartnerClients]
    /\ isIntentionalLogout = [c \in Clients |-> FALSE]
    /\ session = [c \in Clients |-> IF c \in PartnerClients THEN "u1" ELSE NoUser]
    /\ authEvents = [c \in Clients |-> <<>>]
    /\ listener = [c \in Clients |-> NoLookup]
    /\ task = [c \in Clients |-> Idle]
    /\ calls = MaxCalls - HireCalls
    /\ InitForms
    /\ InitToasts

NextHire ==
    \/ \E c \in Clients : SnapshotProjects(c)
    \/ \E c \in AdminClients : SnapshotApplications(c)
    \/ \E c \in AdminClients : SnapshotInvoices(c)
    \/ \E c \in AdminClients, p \in HireProjects, a \in HireProjects, u \in PartnerIds,
          ok \in BOOLEAN : handleHireApplicant(c, p, a, u, ok)
    \/ \E c \in AdminClients, ok \in BOOLEAN : HireApplication(c, ok)
    \/ \E c \in AdminClients, now \in InvoiceIds, now2 \in HireNotificationIds, ok \in BOOLEAN :
          HireInvoice(c, now, now2, ok)
    \/ \E c \in PartnerClients, now \in InvoiceIds, p \in HireProjects, am \in Amounts,
          i \in {0} \cup InvoiceIds : handleCreateInvoice(c, now, p, am, i)
    \/ \E c \in PartnerClients, now \in HireNotificationIds,
          responseOk \in BOOLEAN, storageOk \in BOOLEAN, ok \in BOOLEAN :
          InvoiceResponse(c, now, responseOk, storageOk, ok)

SpecHire == InitHire /\ [][NextHire]_vars

\* ------------------------------------------------------------ specification
Next ==
    \/ \E c \in Clients : SnapshotProjects(c)
    \/ \E c \in AdminClients : SnapshotApplications(c)
    \/ \E c \in AdminClients : SnapshotInvoices(c)
    \/ \E c \in PartnerClients : SnapshotUsers(c)
    \/ \E c \in AdminClients, now \in ProjectIds, b \in Budgets, ok \in BOOLEAN :
          handleCreateProject(c, now, b, ok)
    \/ \E c \in PartnerClients, now \in ApplicationIds, now2 \in NotificationIds,
          p \in ProjectIds, q \in Quotes, ok \in BOOLEAN :
          handleApply(c, now, now2, p, q, ok)
    \/ \E c \in AdminClients, p \in ProjectIds, a \in ApplicationIds, u \in PartnerIds,
          ok \in BOOLEAN : handleHireApplicant(c, p, a, u, ok)
    \/ \E c \in AdminClients, ok \in BOOLEAN : HireApplication(c, ok)
    \/ \E c \in AdminClients, now \in InvoiceIds, now2 \in NotificationIds, ok \in BOOLEAN :
          HireInvoice(c, now, now2, ok)
    \/ \E c \in AdminClients, now \in NotificationIds, p \in ProjectIds, s \in Scores,
          ok \in BOOLEAN : handleCompleteProject(c, now, p, s, ok)
    \/ \E c \in AdminClients, now \in NotificationIds, i \in InvoiceIds,
          st \in InvoiceStatuses : handleUpdateInvoiceStatus(c, now, i, st)
    \/ \E c \in PartnerClients, now \in InvoiceIds, p \in ProjectIds, am \in Amounts,
          i \in {0} \cup InvoiceIds : handleCreateInvoice(c, now, p, am, i)
    \/ \E c \in PartnerClients, now \in NotificationIds,
          responseOk \in BOOLEAN, storageOk \in BOOLEAN, ok \in BOOLEAN :
          InvoiceResponse(c, now, responseOk, storageOk, ok)

Spec == Init /\ [][Next]_vars

\* ======================================================================
\* C1: after any interleaving of CreateProject, Apply, Hire and
\* CompleteProject, every project has assignedToUserId set exactly when its
\* status is IN_PROGRESS or COMPLETED.
C1_AssignedIffStarted ==
    \A p \in ProjectIds :
        dbProjects[p].exists =>
            ((dbProjects[p].assignedToUserId # NoUser)
                <=> (dbProjects[p].status \in {"IN_PROGRESS", "COMPLETED"}))

\* C2: for every (projectId, userId) at most one application is HIRED.
HiredApplications(p, u) ==
    {a \in ApplicationIds : /\ dbApplications[a].exists
                            /\ dbApplications[a].projectId = p
                            /\ dbApplications[a].userId = u
                            /\ dbApplications[a].status = "HIRED"}

C2_AtMostOneHired ==
    \A p \in ProjectIds, u \in PartnerIds : Cardinality(HiredApplications(p, u)) <= 1

\* C3: every Hire that completes without error adds exactly one new invoice:
\* UNBILLED, issueDate '-', the projectId and userId of the hire, the amount the
\* application's quoteAmount when that is non-zero and the project's budget
\* otherwise; no other invoice is created or changed.
C3_HireAddsOneInvoice ==
    [][\A c \in AdminClients, now \in InvoiceIds, now2 \in NotificationIds :
          HireInvoice(c, now, now2, TRUE) =>
             /\ ~dbInvoices[now].exists
             /\ dbInvoices'[now] =
                   InvoiceStub(task[c].projectId, task[c].userId,
                               HireAmount(dbApplications[task[c].applicationId],
                                          dbProjects[task[c].projectId]))
             /\ \A j \in InvoiceIds \ {now} : dbInvoices'[j] = dbInvoices[j]]_vars

\* C4: a project's status changes to IN_PROGRESS only from RECRUITING, a
\* COMPLETED project stays COMPLETED, and a project that is IN_PROGRESS or
\* COMPLETED keeps its assignee, whatever the cached copy the Hire was issued
\* from (steps that create a project aside).
CreatesProject ==
    \E c \in AdminClients, now \in ProjectIds, b \in Budgets :
        handleCreateProject(c, now, b, TRUE)

C4_StatusMovesForward ==
    [][~CreatesProject =>
          \A p \in ProjectIds :
             /\ (dbProjects'[p].status = "IN_PROGRESS" /\ dbProjects[p].status # "IN_PROGRESS")
                    => dbProjects[p].status = "RECRUITING"
             /\ dbProjects[p].status = "COMPLETED" => dbProjects'[p].status = "COMPLETED"
             /\ dbProjects[p].status \in {"IN_PROGRESS", "COMPLETED"}
                    => dbProjects'[p].assignedToUserId = dbProjects[p].assignedToUserId]_vars

\* C5: an invoice becomes BILLED only by handleCreateInvoice whose webhook call
\* succeeded; no other operation sets an invoice to BILLED.
BecomesBilled(i) == dbInvoices[i].status # "BILLED" /\ dbInvoices'[i].status = "BILLED"

Issued(i) ==
    \E c \in PartnerClients, now \in NotificationIds, storageOk \in BOOLEAN :
        task[c].invoiceId = i /\ InvoiceResponse(c, now, TRUE, storageOk, TRUE)

Overridden(i) ==
    \E c \in AdminClients, now \in NotificationIds :
        handleUpdateInvoiceStatus(c, now, i, "BILLED")

C5_BilledOnlyByIssue ==
    [][\A i \in InvoiceIds : BecomesBilled(i) => Issued(i)]_vars

\* C5 (amended): an invoice becomes BILLED only by handleCreateInvoice whose
\* webhook call succeeded or by handleUpdateInvoiceStatus(id, BILLED), the
\* operator's manual override; no other operation sets an invoice to BILLED.
C5_BilledOnlyByIssueOrOverride ==
    [][\A i \in InvoiceIds : BecomesBilled(i) => (Issued(i) \/ Overridden(i))]_vars

\* one invoice issued through the webhook and one billed by the override
C5_Witness ==
    \E i, j \in InvoiceIds :
        /\ dbInvoices[i].status = "BILLED" /\ dbInvoices[i].pdfUrl = "persistent"
        /\ dbInvoices[j].status = "BILLED" /\ dbInvoices[j].pdfUrl = "undefined"

\* C8: every handleUpdateInvoiceStatus(id, PAID) on an existing invoice creates
\* exactly one notification, to the invoice's userId with link INVOICES, also
\* when the client's cached invoices lack the invoice; any other status
\* creates none.
C8_PaidNotifies ==
    [][\A c \in AdminClients, now \in NotificationIds, i \in InvoiceIds,
          st \in InvoiceStatuses :
          (dbInvoices[i].exists /\ handleUpdateInvoiceStatus(c, now, i, st)) =>
             IF st = "PAID"
             THEN /\ dbNotifications'[now] =
                        Notification(dbInvoices[i].userId, "INVOICES", 0)
                  /\ \A n \in NotificationIds \ {now} :
                        dbNotifications'[n] = dbNotifications[n]
             ELSE dbNotifications' = dbNotifications]_vars

\* C9: after a Hire that completes without error the project is IN_PROGRESS
\* with assignedToUserId the hired partner, the application is HIRED, and one
\* notification with link PROJECT:<id> has been created for the partner.
C9_HireOutcome ==
    [][\A c \in AdminClients, now \in InvoiceIds, now2 \in NotificationIds :
          HireInvoice(c, now, now2, TRUE) =>
             /\ dbProjects'[task[c].projectId].status = "IN_PROGRESS"
             /\ dbProjects'[task[c].projectId].assignedToUserId = task[c].userId
             /\ dbApplications'[task[c].applicationId].status = "HIRED"
             /\ dbNotifications'[now2] =
                   HireNotification(task[c].userId, task[c].projectId)]_vars

\* C10: every Apply by an authenticated partner whose write is accepted
\* creates one application
\* (APPLIED, isRead false, userId the caller) and the admin receives exactly
\* one notification with link PROJECT:<id>, whatever the cached users and
\* projects hold.
C10_ApplyNotifiesAdmin ==
    [][\A c \in PartnerClients, now \in ApplicationIds, now2 \in NotificationIds,
          p \in ProjectIds, q \in Quotes :
          handleApply(c, now, now2, p, q, TRUE) =>
             /\ dbApplications'[now] = NewApplication(p, currentUser[c].id, q)
             /\ dbNotifications'[now2] = Notification(AdminId, "PROJECT", p)]_vars

\* C6: once a user is loaded (currentUser set, initial auth check done), an
\* auth state change that reports no session and was not caused by that
\* user's own logout never sets currentUser to null and never changes the view
\* to LOGIN, whatever logins and logouts happened before.
C6_TransientLossIgnored ==
    [][\A c \in PartnerClients :
          (/\ onAuthStateChanged(c)
           /\ Head(authEvents[c]).user = NoUser
           /\ Head(authEvents[c]).cause # "logout"
           /\ currentUser[c].id # NoUser
           /\ hasInitialAuthCheck[c])
             => (currentUser'[c] = currentUser[c] /\ view'[c] # "LOGIN")]_vars

\* C7: whenever the logged-in user is a partner whose status is not ACTIVE,
\* the view is PROFILE and the profile shown is the partner's own, also after
\* the operator changed the partner's status in the store.
C7_RestrictedSeesOwnProfile ==
    \A c \in PartnerClients :
        (/\ currentUser[c].role = "PARTNER"
         /\ \/ currentUser[c].status # "ACTIVE"
            \/ dbUsers[currentUser[c].id].status # "ACTIVE")
           => /\ view[c] = "PROFILE"
              /\ selectedUserProfileId[c] \in {NoUser, currentUser[c].id}

\* C11: an application is written only for a project that is RECRUITING in
\* the store at the time of the write, also when the form was submitted from
\* a cached project that still showed RECRUITING (the apply section of
\* Projects.tsx is rendered only then).
C11_ApplyOnlyWhenRecruiting ==
    [][\A c \in PartnerClients, now \in ApplicationIds, now2 \in NotificationIds,
          p \in ProjectIds, q \in Quotes :
          (/\ projects[c][p].exists
           /\ projects[c][p].status = "RECRUITING"
           /\ handleApply(c, now, now2, p, q, TRUE))
             => (dbProjects[p].exists /\ dbProjects[p].status = "RECRUITING")]_vars

\* C12: when the webhook of handleCreateInvoice answers with success and the
\* store accepts the invoice write, the invoice ends BILLED with the given
\* amount, issueDate today and a pdfUrl (the storage URL, or the local one
\* when the upload failed), and exactly one notification with link INVOICES is
\* created for the admin.
C12_IssueOutcome ==
    [][\A c \in PartnerClients, now \in NotificationIds, storageOk \in BOOLEAN :
          (/\ InvoiceResponse(c, now, TRUE, storageOk, TRUE)
           /\ task[c].existing => CanUpdate(dbInvoices, task[c].invoiceId))
             => /\ dbInvoices'[task[c].invoiceId].exists
                /\ dbInvoices'[task[c].invoiceId].status = "BILLED"
                /\ dbInvoices'[task[c].invoiceId].amount = task[c].amount
                /\ dbInvoices'[task[c].invoiceId].issueDate = "today"
                /\ dbInvoices'[task[c].invoiceId].pdfUrl = PersistentUrl(storageOk)
                /\ dbNotifications'[now] = Notification(AdminId, "INVOICES", 0)
                /\ \A n \in NotificationIds \ {now} :
                      dbNotifications'[n] = dbNotifications[n]]_vars

\* C13: for every integer amount >= 0 the payload has subTotal = amount,
\* taxAmount = floor(amount / 10) and totalAmount = floor(amount * 11 / 10),
\* the floors of the exact products.
C13_PayloadTotals ==
    payload.sent =>
        /\ payload.subTotal = payloadAmount
        /\ payload.taxAmount = DivSmall(payloadAmount, 10)
        /\ payload.totalAmount = DivSmall(Times(payloadAmount, Num(11)), 10)

\* C14: handleMarkAllNotificationsRead is idempotent (a second invocation in
\* a row, from the same cache or from the snapshot that follows the first
\* invocation, leaves the store as the first left it) and never changes a
\* notification addressed to another user.
C14_MarkAllReadIdempotent ==
    [][\A c \in Clients :
          handleMarkAllNotificationsRead(c) =>
             LET userId == currentUser[c].id
                 once == dbNotifications'
             IN  /\ MarkAllRead(once, notifications[c], userId) = once
                 /\ notifications[c] = UserNotifications(dbNotifications, userId)
                       => MarkAllRead(once, UserNotifications(once, userId), userId) = once
                 /\ \A i \in NotifyIds :
                       dbNotifications[i].userId # userId
                          => dbNotifications'[i] = dbNotifications[i]]_vars

\* C15: the bank info written by a profile save parses back to the five
\* fields that were saved, and a stored bankAccountInfo that cannot be parsed
\* is left as it is by every step, a profile save included.
C15_BankInfoRoundTrip ==
    [][\A u \in PartnerIds :
          /\ handleSave(u) =>
                /\ JSONParse(bankAccountInfo'[u], InitialFormData).ok
                /\ JSONParse(bankAccountInfo'[u], InitialFormData).value = formData
          /\ (bankAccountInfo[u] # <<>> /\ ~JSONParse(bankAccountInfo[u], InitialFormData).ok)
                => bankAccountInfo'[u] = bankAccountInfo[u]]_vars

\* C20: while the operator identity is the loaded user, an auth state change
\* that reports a lost session never sets currentUser to null and never
\* changes the view to LOGIN.
C20_OperatorKeptOnLoss ==
    [][\A c \in PartnerClients :
          (/\ onAuthStateChanged(c)
           /\ Head(authEvents[c]) = AuthEvent(NoUser, "lost")
           /\ currentUser[c].id = AdminId)
             => (currentUser'[c] = currentUser[c] /\ view'[c] = view[c])]_vars

\* the newest toast of a client is of the given type
LastToast(toasts, type) == toasts # <<>> /\ toasts[Len(toasts)] = type

\* C16: when the webhook call of handleCreateInvoice fails (response not ok, or
\* fetch threw), the handler shows a failure toast, re-throws to its caller,
\* writes nothing to the invoices collection and creates no notification
C16_WebhookFailure ==
    [][\A c \in PartnerClients, now \in NotificationIds, storageOk \in BOOLEAN,
          ok \in BOOLEAN :
          InvoiceResponse(c, now, FALSE, storageOk, ok)
             => /\ LastToast(activeToasts'[c], "ERROR")
                /\ thrown'[c]
                /\ dbInvoices' = dbInvoices
                /\ dbNotifications' = dbNotifications]_vars

\* a partner's issue failed at the webhook: with two handler calls made and a
\* project stored, the rejected promise and the error toast can only come from
\* handleCreateInvoice followed by a failed response
C16_Witness ==
    \E c \in PartnerClients :
        /\ calls = 2
        /\ \E p \in ProjectIds : dbProjects[p].exists
        /\ thrown[c]
        /\ LastToast(activeToasts[c], "ERROR")
        /\ task[c].pc = "idle"

\* C17: when one of the three writes of handleHireApplicant throws, the handler
\* catches it, shows the generic error toast, does not throw to its caller,
\* does none of the later steps, creates no notification and leaves the
\* writes that went through as they are
C17_HireWriteFailure ==
    [][\A c \in AdminClients :
          LET failed ==
                 \/ \E p \in ProjectIds, a \in ApplicationIds, u \in PartnerIds,
                       ok \in BOOLEAN :
                       /\ projects[c][p].exists /\ applications[c][a].exists
                       /\ ~(ok /\ CanUpdate(dbProjects, p))
                       /\ handleHireApplicant(c, p, a, u, ok)
                 \/ \E ok \in BOOLEAN :
                       /\ ~(ok /\ CanUpdate(dbApplications, task[c].applicationId))
                       /\ HireApplication(c, ok)
                 \/ \E now \in InvoiceIds, now2 \in NotificationIds :
                       HireInvoice(c, now, now2, FALSE)
          IN  failed => /\ LastToast(activeToasts'[c], "ERROR")
                        /\ ~thrown'[c]
                        /\ task'[c].pc = "idle"
                        /\ UNCHANGED dbVars]_vars

\* the second write of a hire failed: the project is assigned and in progress,
\* no application is hired, no invoice and no notification exists, the
\* handler is over and its error toast is up
C17_Witness ==
    \E c \in AdminClients, p \in ProjectIds :
        /\ dbProjects[p].exists /\ dbProjects[p].status = "IN_PROGRESS"
        /\ dbProjects[p].assignedToUserId # NoUser
        /\ \E a \in ApplicationIds : dbApplications[a].exists
        /\ \A a \in ApplicationIds : dbApplications[a].status # "HIRED"
        /\ \A i \in InvoiceIds : ~dbInvoices[i].exists
        /\ \A n \in NotificationIds : ~dbNotifications[n].exists
        /\ task[c].pc = "idle"
        /\ LastToast(activeToasts[c], "ERROR")
        /\ ~thrown[c]

\* the lookups the listener has made for its event once this one has returned
LookupsMade(c) == IF listener[c].pc = "lookup" THEN 1 ELSE listener[c].tries + 2

\* C18: the lookups of the listener for one session event end: every lookup
\* either ends the handling or is one more round of the retry loop, at most 9
\* lookups are made (the first and 8 retries), a lookup with a non-empty
\* result is the last one, and an empty first lookup is not retried when the
\* initial check was completed by then
C18_BoundedRetries ==
    [][\A c \in PartnerClients, ok \in BOOLEAN :
          LookupUser(c, ok)
             => /\ LookupsMade(c) <= 9
                /\ \/ listener'[c].pc = "idle"
                   \/ /\ listener'[c].pc = "retry"
                      /\ listener'[c].user = listener[c].user
                      /\ listener'[c].tries = LookupsMade(c) - 1
                      /\ LookupsMade(c) < 9
                /\ (ok /\ dbUsers[listener[c].user].exists) => listener'[c].pc = "idle"
                /\ (listener[c].pc = "lookup" /\ hasInitialAuthCheck[c])
                      => listener'[c].pc = "idle"]_vars

\* the registration write arrived while the listener was in its last round:
\* the ninth lookup is about to return the profile
C18_Witness ==
    \E c \in PartnerClients :
        /\ listener[c].pc = "retry"
        /\ listener[c].tries = 7
        /\ dbUsers[listener[c].user].exists

\* the listener's lookups for its event end with this step of client c, with
\* no profile found or with a profile that lacks portal access
LookupRefused(c) ==
    /\ LookupUser(c, TRUE)
    /\ listener'[c].pc = "idle"
    /\ LET doc == dbUsers[listener[c].user]
       IN  ~doc.exists \/ ~doc.jobPortalEnabled

\* C19: when the lookups end without a profile or with one that lacks portal
\* access, then on the first check the identity is signed out, currentUser is
\* null, the view is LOGIN and an error toast is shown, and on a later check
\* the loaded user and the view stay as they are
C19_RefusedProfile ==
    [][\A c \in PartnerClients :
          LookupRefused(c)
             => IF ~hasInitialAuthCheck[c]
                THEN /\ session'[c] = NoUser
                     /\ currentUser'[c] = NoCurrentUser
                     /\ view'[c] = "LOGIN"
                     /\ LastToast(activeToasts'[c], "ERROR")
                ELSE /\ currentUser'[c] = currentUser[c]
                     /\ view'[c] = view[c]]_vars

\* the first-check half of C19 alone
C19_FirstCheckRefused ==
    [][\A c \in PartnerClients :
          (LookupRefused(c) /\ ~hasInitialAuthCheck[c])
             => /\ session'[c] = NoUser
                /\ currentUser'[c] = NoCurrentUser
                /\ view'[c] = "LOGIN"
                /\ LastToast(activeToasts'[c], "ERROR")]_vars

\* C30: for every integer amount >= 0 the invoice payload satisfies
\* totalAmount = subTotal + taxAmount
C30_TotalIsSum ==
    payload.sent => payload.totalAmount = Plus(payload.subTotal, payload.taxAmount)

\* C21: a call of addNotification for userId requests the creation of one
\* notification of userId with isRead false (no other stored notification is
\* touched), shows its toast exactly when the local user is userId, and a
\* failed write does not reach the caller
C21_NotifyContract ==
    [][\A c \in Clients, now \in NotifyIds, u \in UserIds, type \in NotificationTypes,
          ok \in BOOLEAN :
          notify(c, now, u, type, ok)
             => /\ ok => /\ dbNotifications'[now].exists
                         /\ dbNotifications'[now].userId = u
                         /\ ~dbNotifications'[now].isRead
                /\ ~ok => dbNotifications' = dbNotifications
                /\ \A i \in NotifyIds \ {now} : dbNotifications'[i] = dbNotifications[i]
                /\ IF currentUser[c].id = u
                   THEN LastToast(activeToasts'[c], type)
                   ELSE activeToasts'[c] = activeToasts[c]
                /\ thrown'[c] = thrown[c]
                /\ ~thrown'[c]]_vars

\* a message notification for the local user was stored and its toast is up
C21_Witness ==
    \E c \in Clients, i \in NotifyIds :
        /\ LastToast(activeToasts[c], "MESSAGE")
        /\ dbNotifications[i].exists
        /\ dbNotifications[i].userId = currentUser[c].id
        /\ ~dbNotifications[i].isRead

C23_HireNotFound ==
    [][\A c \in AdminClients, p \in ProjectIds, a \in ApplicationIds, u \in PartnerIds,
          ok \in BOOLEAN :
          (/\ ~projects[c][p].exists \/ ~applications[c][a].exists
           /\ handleHireApplicant(c, p, a, u, ok))
             => /\ UNCHANGED dbVars
                /\ LastToast(activeToasts'[c], "ERROR")
                /\ ~thrown'[c]
                /\ task'[c] = Idle]_vars

\* the first handler called was a hire of records the operator's client does
\* not have: nothing is stored and the error toast is up
C23_Witness ==
    \E c \in AdminClients :
        /\ calls = 1
        /\ LastToast(activeToasts[c], "ERROR")
        /\ \A p \in ProjectIds : ~dbProjects[p].exists
        /\ \A a \in ApplicationIds : ~dbApplications[a].exists
        /\ \A i \in InvoiceIds : ~dbInvoices[i].exists
        /\ \A n \in NotificationIds : ~dbNotifications[n].exists

\* C24: the three writes of a hire are made one at a time, in the order
\* project update, application update, invoice creation, so that a subscriber
\* can see the project in progress while the application is still applied and
\* the project has no invoice (the state C24_Witness)
C24_WritesInOrder ==
    [][\A c \in AdminClients :
          /\ task'[c].pc = "hire2" => task[c].pc \in {"idle", "hire2"}
          /\ task'[c].pc = "hire3" => task[c].pc \in {"hire2", "hire3"}
          /\ (task[c].pc = "idle" /\ task'[c].pc = "hire2")
                => /\ dbProjects'[task'[c].projectId].status = "IN_PROGRESS"
                   /\ dbApplications' = dbApplications
                   /\ dbInvoices' = dbInvoices
          /\ (task[c].pc = "hire2" /\ task'[c].pc = "hire3")
                => /\ dbApplications'[task[c].applicationId].status = "HIRED"
                   /\ dbProjects' = dbProjects
                   /\ dbInvoices' = dbInvoices
          /\ (\E now \in InvoiceIds, now2 \in NotificationIds : HireInvoice(c, now, now2, TRUE))
                => /\ task[c].pc = "hire3"
                   /\ \E i \in InvoiceIds :
                         dbInvoices'[i] = InvoiceStub(task[c].projectId, task[c].userId,
                                                      task[c].amount)
                   /\ dbProjects' = dbProjects
                   /\ dbApplications' = dbApplications]_vars

\* between the first and the second write of a hire the partner's client has
\* the project as in progress, while the application hired is still applied
\* and no invoice of the project is stored
C24_Witness ==
    \E c \in AdminClients, o \in PartnerClients :
        /\ task[c].pc = "hire2"
        /\ projects[o][task[c].projectId].exists
        /\ projects[o][task[c].projectId].status = "IN_PROGRESS"
        /\ dbApplications[task[c].applicationId].status = "APPLIED"
        /\ dbApplications[task[c].applicationId].projectId = task[c].projectId
        /\ \A i \in InvoiceIds :
              ~(dbInvoices[i].exists /\ dbInvoices[i].projectId = task[c].projectId)

\* every record stored in the collection before the step is stored unchanged
\* after it
Kept(before, after) == \A i \in DOMAIN before : before[i].exists => after[i] = before[i]

\* C25: a create operation (create project, apply, the invoice stub of a hire,
\* a notification) leaves every record stored before it in its collection
\* present and unchanged, also when the time-derived ids of two creations agree
C25_CreatesNeverReplace ==
    [][/\ (\E c \in AdminClients, now \in ProjectIds, b \in Budgets :
              handleCreateProject(c, now, b, TRUE)) => Kept(dbProjects, dbProjects')
       /\ (\E c \in PartnerClients, now \in ApplicationIds, now2 \in NotificationIds,
              p \in ProjectIds, q \in Quotes : handleApply(c, now, now2, p, q, TRUE))
             => (Kept(dbApplications, dbApplications')
                 /\ Kept(dbNotifications, dbNotifications'))
       /\ (\E c \in AdminClients, now \in InvoiceIds, now2 \in NotificationIds :
              HireInvoice(c, now, now2, TRUE))
             => (Kept(dbInvoices, dbInvoices') /\ Kept(dbNotifications, dbNotifications'))
      ]_vars

\* ======================================================================
\* C26: the hired partner's notification is created only after the project
\* update, the application update and the invoice creation of that Hire:
\* wherever a hire notification for a project is stored, an invoice of that
\* project is stored too.
HireNotified(p) ==
    \E n \in DOMAIN dbNotifications :
       /\ dbNotifications[n].exists
       /\ dbNotifications[n].title = "hired"
       /\ dbNotifications[n].ref = p

HasInvoice(p) ==
    \E i \in DOMAIN dbInvoices : dbInvoices[i].exists /\ dbInvoices[i].projectId = p

C26_NotifiedAfterInvoice ==
    \A p \in DOMAIN dbProjects : HireNotified(p) => HasInvoice(p)

\* ======================================================================
\* C27: the intentional-logout flag set by one logout affects only the
\* no-session event of that logout: whenever a user is loaded, the flag is
\* false.
C27_FlagOnlyForItsLogout ==
    \A c \in Clients : currentUser[c].id # NoUser => ~isIntentionalLogout[c]

\* ======================================================================
\* C28: whenever no user is logged in, the navigation history is empty and
\* no profile is selected, whichever path cleared the user.
C28_LoggedOutIsClean ==
    \A c \in Clients :
       currentUser[c].id = NoUser =>
          history[c] = <<>> /\ selectedUserProfileId[c] = NoUser

\* ======================================================================
\* C29: invoice status never moves backward: once an invoice is Paid, no
\* UpdateInvoiceStatus and no CreateOrUpdateInvoice step, an issuance started
\* from a cached copy that still shows Unbilled included, changes its status.
StaysPaid ==
    \A i \in DOMAIN dbInvoices :
       dbInvoices[i].exists /\ dbInvoices[i].status = "PAID"
          => dbInvoices'[i].status = "PAID"

UpdateInvoiceStatusStep ==
    \E c \in AdminClients, now \in NotificationIds, i \in InvoiceIds,
       st \in InvoiceStatuses : handleUpdateInvoiceStatus(c, now, i, st)

IssuanceStep ==
    \E c \in PartnerClients, now \in NotificationIds,
       responseOk \in BOOLEAN, storageOk \in BOOLEAN, ok \in BOOLEAN :
       InvoiceResponse(c, now, responseOk, storageOk, ok)

C29_StatusNeverBackward ==
    [][UpdateInvoiceStatusStep \/ IssuanceStep => StaysPaid]_vars

\* the issuance half of C29 alone, for an invoice that exists already
C29_IssuanceKeepsPaid ==
    [][IssuanceStep /\ task["P"].existing => StaysPaid]_vars
====
